---------------------------- MODULE Spec2Model ----------------------------
(***************************************************************************)
(* Model of build/generate_epub.py: parse_full_text (the chapter           *)
(* partitioner), process_text (the line classifier) and the loop of main   *)
(* that numbers the chapter pages.                                         *)
(*                                                                         *)
(* A Python string is a sequence of characters; a character is a one-      *)
(* element token.  Characters outside ASCII are written by name:           *)
(*   "di" 第   "hui" 回   "yi" 一   "er" 二   "bai" 百   "IDSP" U+3000     *)
(*   "fei" 扉  "ye" 页   "ti" 题   "shi" 诗  "colon" ：                    *)
(*   "qian" 前 "yan" 言  "wen" 文  "zi" 字   "kai" 开  "pian" 篇 "zhi" 之  *)
(*   "zhe" 这  "shi4" 是 "zheng" 正 "period" 。 "comma" ， "qmark" ？      *)
(*   "bang" ！ "lb" 【   "rb" 】   "yue" 曰  "yun" 云  "dao" 道            *)
(*   "quan" 全 "jia" 贾  "yu" 雨   "cun" 村  "pi" 批   "zhu" 注            *)
(*   "feng" 风 "chen" 尘 "huai" 怀 "gui" 闺  "xiu" 秀                      *)
(* ASCII characters stand for themselves (" ", "\t", "\n", "&", "<", ...). *)
(* Offsets into strings are Python offsets (0-based, end exclusive); the   *)
(* slice s[a:b] is Slice(s, a, b).                                         *)
(***************************************************************************)
EXTENDS Integers, Sequences, FiniteSets, TLC

VARIABLES
    pc,             \* position in the run
    content,        \* text of raw_data/full.txt
    nlines,         \* number of lines written to full.txt so far
    toc_text,       \* parse_full_text: text before the split point
    body_text,      \* parse_full_text: text from the split point on
    diag,           \* messages printed, in order
    chapters,       \* parse_full_text: first return value (TOC entries)
    parsed_body,    \* parse_full_text: second return value
    item,           \* main: number of parsed_body items already handled
    chapter_index,  \* main: chapter_index
    play_order,     \* main: play_order
    pages,          \* main: pages written by create_html_file, in order
    text,           \* argument of a direct call of process_text
    escaped,        \* process_text: text after the HTML escape
    wrapped,        \* process_text: text after the comment wrapping
    html_lines      \* process_text: html_lines

vars == <<pc, content, nlines, toc_text, body_text, diag, chapters,
          parsed_body, item, chapter_index, play_order, pages,
          text, escaped, wrapped, html_lines>>

---------------------------------------------------------------------------
(* Bounds of the model *)

MaxLines == 4          \* lines of full.txt
MaxTextLines == 3      \* lines of a text handed to process_text

---------------------------------------------------------------------------
(* Characters and str primitives *)

\* what Python's \s and str.strip() treat as whitespace, among the
\* characters of the model
Whitespace == {" ", "\t", "\n", "IDSP"}

\* [一二三四五六七八九十百] restricted to the numerals of the model
Numerals == {"yi", "er", "bai"}

\* \d restricted to the digits of the model
Digits == {"1"}

\* s[a:b] for 0 <= a, b <= len(s)
Slice(s, a, b) == SubSeq(s, a + 1, b)

\* least index i >= p (1-based) with s[i] \notin S, Len(s)+1 if none
SkipWhile(s, p, S) ==
    CHOOSE i \in p..(Len(s) + 1) :
        /\ (i = Len(s) + 1 \/ s[i] \notin S)
        /\ \A j \in p..(i - 1) : s[j] \in S

\* greatest index i <= p (1-based) with s[i] \notin S, 0 if none
SkipBack(s, p, S) ==
    CHOOSE i \in 0..p :
        /\ (i = 0 \/ s[i] \notin S)
        /\ \A j \in (i + 1)..p : s[j] \in S

\* str.strip()
Strip(s) ==
    LET a == SkipWhile(s, 1, Whitespace)
        b == SkipBack(s, Len(s), Whitespace)
    IN  IF a > Len(s) THEN <<>> ELSE SubSeq(s, a, b)

\* str.find(pat): Python offset of the first occurrence, -1 if absent
StrFind(s, pat) ==
    LET hits == {i \in 0..(Len(s) - Len(pat)) : Slice(s, i, i + Len(pat)) = pat}
    IN  IF hits = {} THEN -1
        ELSE CHOOSE i \in hits : \A j \in hits : i <= j

\* str.split('\n')
RECURSIVE SplitLines(_)
SplitLines(s) ==
    LET k == StrFind(s, <<"\n">>)
    IN  IF k = -1 THEN <<s>>
        ELSE <<Slice(s, 0, k)>> \o SplitLines(Slice(s, k + 1, Len(s)))

\* sep.join(parts)
RECURSIVE Join(_, _)
Join(parts, sep) ==
    IF parts = <<>> THEN <<>>
    ELSE IF Len(parts) = 1 THEN parts[1]
    ELSE parts[1] \o sep \o Join(Tail(parts), sep)

\* str.replace(c, rep) for a one-character c
RECURSIVE Replace(_, _, _)
Replace(s, c, rep) ==
    IF s = <<>> THEN <<>>
    ELSE IF Len(s) = 1 THEN (IF s[1] = c THEN rep ELSE s)
    ELSE Replace(SubSeq(s, 1, Len(s) \div 2), c, rep)
         \o Replace(SubSeq(s, Len(s) \div 2 + 1, Len(s)), c, rep)

---------------------------------------------------------------------------
(* The regular expressions of parse_full_text *)

\* "扉页题诗："
split_marker == <<"fei", "ye", "ti", "shi", "colon">>

\* 第\s*[一二三四五六七八九十百]+\s*回 tried with 第 at index d (1-based):
\* the index of 回, or 0 when the token does not match there.  Each
\* repetition is followed by a character outside its class, so the greedy
\* match is the only one.
NumeralToken(s, d) ==
    IF d < 1 \/ d > Len(s) \/ s[d] # "di" THEN 0
    ELSE LET n == SkipWhile(s, d + 1, Whitespace)
             m == SkipWhile(s, n, Numerals)
             h == SkipWhile(s, m, Whitespace)
         IN  IF m > n /\ h <= Len(s) /\ s[h] = "hui" THEN h ELSE 0

\* 第\s*一\s*回 tried with 第 at index d (1-based): the index of 回, or 0
FirstChapterToken(s, d) ==
    IF d < 1 \/ d > Len(s) \/ s[d] # "di" THEN 0
    ELSE LET n == SkipWhile(s, d + 1, Whitespace)
             h == SkipWhile(s, n + 1, Whitespace)
         IN  IF n <= Len(s) /\ s[n] = "yi" /\ h <= Len(s) /\ s[h] = "hui"
             THEN h ELSE 0

\* (^|\n) tried at offset p: the index (1-based) at which the rest of the
\* pattern continues, 0 when neither alternative can start a match here.
\* ^ (no re.MULTILINE) matches at offset 0 only.
LineStart(s, p) ==
    IF p = 0 /\ Len(s) > 0 /\ s[1] = "di" THEN 1
    ELSE IF p < Len(s) /\ s[p + 1] = "\n" THEN p + 2
    ELSE 0

\* first_chapter_search searching for a chapter of any number
first_chapter_search_any_numeral(s) ==
    LET hits == {p \in 0..Len(s) : NumeralToken(s, LineStart(s, p)) > 0}
    IN  IF hits = {} THEN -1
        ELSE CHOOSE p \in hits : \A q \in hits : p <= q

\* re.search(r'(^|\n)第\s*一\s*回', s): match.start(), -1 when no match
first_chapter_search(s) ==
    LET hits == {p \in 0..Len(s) : FirstChapterToken(s, LineStart(s, p)) > 0}
    IN  IF hits = {} THEN -1
        ELSE CHOOSE p \in hits : \A q \in hits : p <= q

\* chap_header_pattern tried at offset p:
\*   (^|\n)(第\s*[一二三四五六七八九十百]+\s*回\s+.*?)(\n|$)
\* match.end(), or -1 when there is no match at p.  \s+ takes the whole run
\* of whitespace (line breaks included); the lazy .*? then runs to the next
\* line break, which group 3 consumes, or to the end of the text.
chap_header_match(s, p) ==
    LET h == NumeralToken(s, LineStart(s, p))
        w == SkipWhile(s, h + 1, Whitespace)
        e == SkipWhile(s, w, {c \in {s[i] : i \in 1..Len(s)} : c # "\n"})
    IN  IF h = 0 \/ w = h + 1 THEN -1
        ELSE IF e <= Len(s) THEN e ELSE Len(s)

\* list(chap_header_pattern.finditer(s)) from offset p on: the matches, left
\* to right and non-overlapping, as [start, end]
RECURSIVE finditer(_, _)
finditer(s, p) ==
    LET hits == {q \in p..(Len(s) - 1) : chap_header_match(s, q) # -1}
        q == CHOOSE q \in hits : \A r \in hits : q <= r
    IN  IF hits = {} THEN <<>>
        ELSE <<[start |-> q, end |-> chap_header_match(s, q)]>>
             \o finditer(s, chap_header_match(s, q))

\* re.match(r'(第\s*[一二三四五六七八九十百]+\s*回)\s+(.*)', header):
\* [ok, group1, group2]
header_match(header) ==
    LET h == NumeralToken(header, 1)
        w == SkipWhile(header, h + 1, Whitespace)
        e == SkipWhile(header, w,
                       {c \in {header[i] : i \in 1..Len(header)} : c # "\n"})
    IN  IF h = 0 \/ w = h + 1
        THEN [ok |-> FALSE, group1 |-> <<>>, group2 |-> <<>>]
        ELSE [ok |-> TRUE, group1 |-> SubSeq(header, 1, h),
              group2 |-> SubSeq(header, w, e - 1)]

\* toc_pattern.match(line) for
\*   (第\s*[一二三四五六七八九十百]+\s*回)\s+(.*?)\s*(\d+)?$
\* on a stripped line of the TOC region: [ok, group1, group2].  The lazy
\* group 2 stops at the first offset from which only whitespace, then
\* digits, remain.
toc_match(line) ==
    LET h == NumeralToken(line, 1)
        w == SkipWhile(line, h + 1, Whitespace)
        d == SkipBack(line, Len(line), Digits)
        t == SkipBack(line, d, Whitespace)
    IN  IF h = 0 \/ w = h + 1
        THEN [ok |-> FALSE, group1 |-> <<>>, group2 |-> <<>>]
        ELSE [ok |-> TRUE, group1 |-> SubSeq(line, 1, h),
              group2 |-> IF t < w THEN <<>> ELSE SubSeq(line, w, t)]

---------------------------------------------------------------------------
(* parse_full_text *)

Min(a, b) == IF a < b THEN a ELSE b

\* the loop over toc_text.split('\n'): the TOC entries of the lines from
\* index i on, appended to acc
RECURSIVE parse_toc_lines(_, _, _)
parse_toc_lines(lines, i, acc) ==
    IF i > Len(lines) THEN acc
    ELSE LET line == Strip(lines[i])
             match == toc_match(line)
         IN  IF line = <<>> \/ ~match.ok
             THEN parse_toc_lines(lines, i + 1, acc)
             ELSE parse_toc_lines(lines, i + 1,
                      Append(acc, [id       |-> Len(acc) + 1,
                                   num_str  |-> Replace(match.group1, " ", <<>>),
                                   title    |-> Strip(match.group2),
                                   filename |-> Len(acc) + 1]))

\* chapter_record without the [:4] of the fallback: the whole header line
\* becomes the numeral-token
chapter_record_unsliced(body, start, end) ==
    LET full_chunk == Strip(Slice(body, start, end))
        lines == SplitLines(full_chunk)
        header == Strip(lines[1])
        match == header_match(header)
    IN  [type            |-> "chapter",
         num_str         |-> IF match.ok
                             THEN Replace(match.group1, " ", <<>>)
                             ELSE header,
         title           |-> IF match.ok THEN Strip(match.group2) ELSE header,
         content         |-> Strip(Join(Tail(lines), <<"\n">>)),
         original_header |-> header]

\* the body of the loop over matches: the chapter record of the chunk
\* body[start:end]
chapter_record(body, start, end) ==
    LET full_chunk == Strip(Slice(body, start, end))
        lines == SplitLines(full_chunk)
        header == Strip(lines[1])
        match == header_match(header)
    IN  [type            |-> "chapter",
         num_str         |-> IF match.ok
                             THEN Replace(match.group1, " ", <<>>)
                             ELSE SubSeq(header, 1, Min(4, Len(header))),
         title           |-> IF match.ok THEN Strip(match.group2) ELSE header,
         content         |-> Strip(Join(Tail(lines), <<"\n">>)),
         original_header |-> header]

\* parse_body trimming the body region it keeps when there is no chapter
parse_body_trimmed(body, matches) ==
    IF matches # <<>>
    THEN LET intro_text == Strip(Slice(body, 0, matches[1].start))
             intro == IF intro_text # <<>>
                      THEN <<[type     |-> "intro",
                              title    |-> <<"fei", "ye">>,
                              content  |-> intro_text,
                              filename |-> "intro.html"]>>
                      ELSE <<>>
         IN  intro \o
             [i \in 1..Len(matches) |->
                 chapter_record(body, matches[i].start,
                                IF i < Len(matches) THEN matches[i + 1].start
                                ELSE Len(body))]
    ELSE <<[type     |-> "intro",
            title    |-> <<"quan", "wen">>,
            content  |-> Strip(body),
            filename |-> "full.html"]>>

\* parse_body ending the last chunk at the end of its header match instead
\* of the end of the body region
parse_body_last_chunk_cut(body, matches) ==
    IF matches # <<>>
    THEN LET intro_text == Strip(Slice(body, 0, matches[1].start))
             intro == IF intro_text # <<>>
                      THEN <<[type     |-> "intro",
                              title    |-> <<"fei", "ye">>,
                              content  |-> intro_text,
                              filename |-> "intro.html"]>>
                      ELSE <<>>
         IN  intro \o
             [i \in 1..Len(matches) |->
                 chapter_record(body, matches[i].start,
                                IF i < Len(matches) THEN matches[i + 1].start
                                ELSE matches[i].end)]
    ELSE <<[type     |-> "intro",
            title    |-> <<"quan", "wen">>,
            content  |-> body,
            filename |-> "full.html"]>>

\* the "Parse Body" part: parsed_body for a body region and its matches
parse_body(body, matches) ==
    IF matches # <<>>
    THEN LET intro_text == Strip(Slice(body, 0, matches[1].start))
             intro == IF intro_text # <<>>
                      THEN <<[type     |-> "intro",
                              title    |-> <<"fei", "ye">>,
                              content  |-> intro_text,
                              filename |-> "intro.html"]>>
                      ELSE <<>>
         IN  intro \o
             [i \in 1..Len(matches) |->
                 chapter_record(body, matches[i].start,
                                IF i < Len(matches) THEN matches[i + 1].start
                                ELSE Len(body))]
    ELSE <<[type     |-> "intro",
            title    |-> <<"quan", "wen">>,
            content  |-> body,
            filename |-> "full.html"]>>

\* split_toc_body leaving the marker out of the body region
split_toc_body_marker_dropped(c) ==
    IF StrFind(c, split_marker) # -1
    THEN LET k == StrFind(c, split_marker)
         IN  [ok |-> TRUE, toc_text |-> Slice(c, 0, k),
              body_text |-> Slice(c, k + Len(split_marker), Len(c)),
              diag |-> <<>>]
    ELSE LET m == first_chapter_search(c)
         IN  IF m # -1
             THEN [ok |-> TRUE, toc_text |-> Slice(c, 0, m),
                   body_text |-> Slice(c, m, Len(c)),
                   diag |-> <<"Warning: marker not found">>]
             ELSE [ok |-> FALSE, toc_text |-> <<>>, body_text |-> <<>>,
                   diag |-> <<"Warning: marker not found",
                              "Error: Could not split TOC and Body.">>]

\* split_toc_body trying the first-chapter search before the marker
split_toc_body_chapter_first(c) ==
    IF first_chapter_search(c) # -1
    THEN LET m == first_chapter_search(c)
         IN  [ok |-> TRUE, toc_text |-> Slice(c, 0, m),
              body_text |-> Slice(c, m, Len(c)),
              diag |-> <<>>]
    ELSE IF StrFind(c, split_marker) # -1
    THEN LET k == StrFind(c, split_marker)
         IN  [ok |-> TRUE, toc_text |-> Slice(c, 0, k),
              body_text |-> split_marker \o Slice(c, k + Len(split_marker), Len(c)),
              diag |-> <<>>]
    ELSE [ok |-> FALSE, toc_text |-> <<>>, body_text |-> <<>>,
          diag |-> <<"Warning: marker not found",
                     "Error: Could not split TOC and Body.">>]

\* split_toc_body keeping the whole text as body region when neither the
\* marker nor a first chapter is found
split_toc_body_keep_all(c) ==
    IF StrFind(c, split_marker) # -1
    THEN LET k == StrFind(c, split_marker)
         IN  [ok |-> TRUE, toc_text |-> Slice(c, 0, k),
              body_text |-> split_marker \o Slice(c, k + Len(split_marker), Len(c)),
              diag |-> <<>>]
    ELSE LET m == first_chapter_search(c)
         IN  IF m # -1
             THEN [ok |-> TRUE, toc_text |-> Slice(c, 0, m),
                   body_text |-> Slice(c, m, Len(c)),
                   diag |-> <<"Warning: marker not found">>]
             ELSE [ok |-> TRUE, toc_text |-> <<>>, body_text |-> c,
                   diag |-> <<"Warning: marker not found">>]

\* the split into TOC region and body region: [ok, toc_text, body_text, diag]
split_toc_body(c) ==
    IF StrFind(c, split_marker) # -1
    THEN LET k == StrFind(c, split_marker)
         IN  [ok |-> TRUE, toc_text |-> Slice(c, 0, k),
              body_text |-> split_marker \o Slice(c, k + Len(split_marker), Len(c)),
              diag |-> <<>>]
    ELSE LET m == first_chapter_search(c)
         IN  IF m # -1
             THEN [ok |-> TRUE, toc_text |-> Slice(c, 0, m),
                   body_text |-> Slice(c, m, Len(c)),
                   diag |-> <<"Warning: marker not found">>]
             ELSE [ok |-> FALSE, toc_text |-> <<>>, body_text |-> <<>>,
                   diag |-> <<"Warning: marker not found",
                              "Error: Could not split TOC and Body.">>]

\* parse_full_text() on a full.txt with text c:
\* [ok, toc_text, body_text, diag, chapters, parsed_body]
parse_full_text(c) ==
    LET sp == split_toc_body(c)
        matches == finditer(sp.body_text, 0)
    IN  IF ~sp.ok
        THEN [toc_text |-> sp.toc_text, body_text |-> sp.body_text,
              diag |-> sp.diag, chapters |-> <<>>, parsed_body |-> <<>>]
        ELSE [toc_text |-> sp.toc_text, body_text |-> sp.body_text,
              diag |-> IF matches = <<>>
                       THEN Append(sp.diag, "Warning: No chapter headers found in body.")
                       ELSE sp.diag,
              chapters |-> parse_toc_lines(SplitLines(sp.toc_text), 1, <<>>),
              parsed_body |-> parse_body(sp.body_text, matches)]

---------------------------------------------------------------------------
(* process_text *)

\* the length below which a line ending in punctuation is a poem line
ShortLine == 40

\* '<span class="comment">' and '</span>'
span_open == <<"<", "s", "p", "a", "n", " ", "c", "l", "a", "s", "s", "=", "\"",
               "c", "o", "m", "m", "e", "n", "t", "\"", ">">>
span_close == <<"<", "/", "s", "p", "a", "n", ">">>

\* text.replace('&', '&amp;').replace('<', '&lt;').replace('>', '&gt;')
escape_html(t) ==
    Replace(Replace(Replace(t, "&", <<"&", "a", "m", "p", ";">>),
                    "<", <<"&", "l", "t", ";">>),
            ">", <<"&", "g", "t", ";">>)

\* wrap_comments with a greedy .* : the span runs to the last 】 of the line
RECURSIVE wrap_comments_greedy(_)
wrap_comments_greedy(t) ==
    LET chars == {t[i] : i \in 1..Len(t)}
        eol(i) == SkipWhile(t, i, chars \ {"\n"})
        last(i) == SkipBack(t, eol(i) - 1, chars \ {"rb"})
        hits == {i \in 1..Len(t) : t[i] = "lb" /\ last(i) > i}
        i == CHOOSE i \in hits : \A k \in hits : i <= k
    IN  IF hits = {} THEN t
        ELSE SubSeq(t, 1, i - 1)
             \o span_open \o SubSeq(t, i, last(i)) \o span_close
             \o wrap_comments_greedy(SubSeq(t, last(i) + 1, Len(t)))

\* re.sub(r'(【.*?】)', r'<span class="comment">\1</span>', t): the leftmost
\* match starts at the first 【 from which the lazy .*? reaches a 】 before
\* any line break ('.' does not match '\n'); it ends at that nearest 】, and
\* the scan resumes after it
RECURSIVE wrap_comments(_)
wrap_comments(t) ==
    LET chars == {t[i] : i \in 1..Len(t)}
        stop(i) == SkipWhile(t, i + 1, chars \ {"rb", "\n"})
        hits == {i \in 1..Len(t) :
                    t[i] = "lb" /\ stop(i) <= Len(t) /\ t[stop(i)] = "rb"}
        i == CHOOSE i \in hits : \A k \in hits : i <= k
    IN  IF hits = {} THEN t
        ELSE SubSeq(t, 1, i - 1)
             \o span_open \o SubSeq(t, i, stop(i)) \o span_close
             \o wrap_comments(SubSeq(t, stop(i) + 1, Len(t)))

\* str.startswith / str.endswith
StartsWith(s, pre) == Len(s) >= Len(pre) /\ SubSeq(s, 1, Len(pre)) = pre
EndsWith(s, suf) ==
    Len(s) >= Len(suf) /\ SubSeq(s, Len(s) - Len(suf) + 1, Len(s)) = suf

\* classify_line measuring the line without the comment markup
classify_line_markup_not_counted(line) ==
    LET spans == {i \in 1..(Len(line) - Len(span_open) + 1) :
                     SubSeq(line, i, i + Len(span_open) - 1) = span_open}
        length == Len(line)
                  - Cardinality(spans) * (Len(span_open) + Len(span_close))
    IN  IF \/ StartsWith(line, <<"shi", "yue">>)
           \/ EndsWith(line, <<"yun", "colon">>)
           \/ EndsWith(line, <<"dao", "shi4", "colon">>)
           \/ EndsWith(line, <<"yue", "colon">>)
        THEN [class |-> "poem-intro", line |-> line]
        ELSE IF /\ length < ShortLine
                /\ \/ EndsWith(line, <<"period">>)
                   \/ EndsWith(line, <<"comma">>)
                   \/ EndsWith(line, <<"qmark">>)
                   \/ EndsWith(line, <<"bang">>)
        THEN [class |-> "poem-line", line |-> line]
        ELSE [class |-> "", line |-> line]

\* classify_line testing the poem-line rule before the poem-intro rule
classify_line_poem_line_first(line) ==
    IF /\ Len(line) < ShortLine
       /\ \/ EndsWith(line, <<"period">>)
          \/ EndsWith(line, <<"comma">>)
          \/ EndsWith(line, <<"qmark">>)
          \/ EndsWith(line, <<"bang">>)
    THEN [class |-> "poem-line", line |-> line]
    ELSE IF \/ StartsWith(line, <<"shi", "yue">>)
            \/ EndsWith(line, <<"yun", "colon">>)
            \/ EndsWith(line, <<"dao", "shi4", "colon">>)
            \/ EndsWith(line, <<"yue", "colon">>)
    THEN [class |-> "poem-intro", line |-> line]
    ELSE [class |-> "", line |-> line]

\* the if/elif/else of the loop: the paragraph written for a stripped,
\* non-empty line, as [class, line]
classify_line(line) ==
    IF \/ StartsWith(line, <<"shi", "yue">>)
       \/ EndsWith(line, <<"yun", "colon">>)
       \/ EndsWith(line, <<"dao", "shi4", "colon">>)
       \/ EndsWith(line, <<"yue", "colon">>)
    THEN [class |-> "poem-intro", line |-> line]
    ELSE IF /\ Len(line) < ShortLine
            /\ \/ EndsWith(line, <<"period">>)
               \/ EndsWith(line, <<"comma">>)
               \/ EndsWith(line, <<"qmark">>)
               \/ EndsWith(line, <<"bang">>)
    THEN [class |-> "poem-line", line |-> line]
    ELSE [class |-> "", line |-> line]

\* classify_lines without the "if not line: continue"
RECURSIVE classify_lines_keep_blank(_, _, _)
classify_lines_keep_blank(lines, i, acc) ==
    IF i > Len(lines) THEN acc
    ELSE classify_lines_keep_blank(lines, i + 1,
             Append(acc, classify_line(Strip(lines[i]))))

\* the loop over lines: html_lines for the lines from index i on
RECURSIVE classify_lines(_, _, _)
classify_lines(lines, i, acc) ==
    IF i > Len(lines) THEN acc
    ELSE LET line == Strip(lines[i])
         IN  IF line = <<>> THEN classify_lines(lines, i + 1, acc)
             ELSE classify_lines(lines, i + 1, Append(acc, classify_line(line)))

\* process_text(t): [escaped, wrapped, html_lines]; the returned string is
\* the paragraphs of html_lines joined by line breaks
process_text(t) ==
    LET e == escape_html(t)
        w == wrap_comments(e)
    IN  [escaped |-> e, wrapped |-> w,
         html_lines |-> classify_lines(SplitLines(w), 1, <<>>)]

---------------------------------------------------------------------------
(* The texts the model reads *)

\* lines of full.txt
line_marker_intro == split_marker \o <<"qian", "yan", "wen", "zi">>
line_scenario_header ==
    <<"di", "yi", "hui", "IDSP", "kai", "pian", "zhi", "ti", "IDSP", "IDSP",
      "zhe", "shi4", "zheng", "wen", "period">>
line_body == <<"zhe", "shi4", "zheng", "wen", "period">>
line_header_spaces == <<"di", " ", "er", " ", "hui", " ", " ", "wen", "1">>
line_header_wide == <<"di", "IDSP", "bai", "\t", "hui", "IDSP", "wen">>
line_token_only == <<"di", "yi", "hui">>
line_empty == <<>>

FullTxtLines ==
    {line_marker_intro, line_scenario_header, line_body, line_header_spaces,
     line_header_wide, line_token_only, line_empty}

\* lines of a text handed to process_text
text_blank == <<" ", "IDSP">>
text_poem_intro == <<"shi", "yue", "wen", "period">>
text_says == <<"wen", "yun", "colon">>
text_plain == <<"wen">>
text_annotated ==
    <<"jia", "yu", "cun", "lb", "pi", "zhu", "rb",
      "feng", "chen", "huai", "gui", "xiu", "period">>
text_open == <<"wen", "lb", "pi">>
text_close == <<"zhu", "rb", "period">>
text_reserved == <<"&", "<", "wen", ">", "period">>
text_nested == <<"lb", "pi", "lb", "zhu", "rb", "wen", "rb">>
text_long == [i \in 1..ShortLine |-> IF i = ShortLine THEN "period" ELSE "wen"]
text_annotated_10 ==
    <<"jia", "yu", "cun", "lb", "pi", "zhu", "rb", "xiu", "wen", "period">>
text_annotated_11 ==
    <<"jia", "yu", "cun", "lb", "pi", "zhu", "rb", "gui", "xiu", "wen", "period">>

TextLines ==
    {line_empty, text_blank, text_poem_intro, text_says, line_body, text_plain,
     text_annotated, text_open, text_close, text_reserved, text_nested,
     text_long, text_annotated_10, text_annotated_11}

---------------------------------------------------------------------------
(* The run of main *)

Init ==
    /\ pc = "write"
    /\ content = <<>>
    /\ nlines = 0
    /\ toc_text = <<>>
    /\ body_text = <<>>
    /\ diag = <<>>
    /\ chapters = <<>>
    /\ parsed_body = <<>>
    /\ item = 0
    /\ chapter_index = 0
    /\ play_order = 2
    /\ pages = <<>>
    /\ text = <<>>
    /\ escaped = <<>>
    /\ wrapped = <<>>
    /\ html_lines = <<>>

\* raw_data/full.txt gets one more line before the run
WriteLine(l) ==
    /\ pc = "write"
    /\ nlines < MaxLines
    /\ content' = IF nlines = 0 THEN l ELSE content \o <<"\n">> \o l
    /\ nlines' = nlines + 1
    /\ UNCHANGED <<pc, toc_text, body_text, diag, chapters, parsed_body, item,
                   chapter_index, play_order, pages, text, escaped, wrapped,
                   html_lines>>

\* parse_full_text() when raw_data/full.txt does not exist
FileMissing ==
    /\ pc = "write"
    /\ nlines = 0
    /\ diag' = <<"Error: full.txt not found.">>
    /\ chapters' = <<>>
    /\ parsed_body' = <<>>
    /\ pc' = "main"
    /\ UNCHANGED <<content, nlines, toc_text, body_text, item, chapter_index,
                   play_order, pages, text, escaped, wrapped, html_lines>>

\* toc_list, parsed_body = parse_full_text()
ParseFullText ==
    /\ pc = "write"
    /\ LET r == parse_full_text(content)
       IN  /\ toc_text' = r.toc_text
           /\ body_text' = r.body_text
           /\ diag' = r.diag
           /\ chapters' = r.chapters
           /\ parsed_body' = r.parsed_body
    /\ pc' = "main"
    /\ UNCHANGED <<content, nlines, item, chapter_index, play_order, pages,
                   text, escaped, wrapped, html_lines>>

\* MainItem with chapter_index counting the front-matter page as well
MainItem_count_every_item ==
    /\ pc = "main"
    /\ item < Len(parsed_body)
    /\ LET it == parsed_body[item + 1]
           r == process_text(it.content)
       IN  /\ escaped' = r.escaped
           /\ wrapped' = r.wrapped
           /\ html_lines' = r.html_lines
           /\ chapter_index' = chapter_index + 1
           /\ IF it.type = "intro"
              THEN pages' = Append(pages,
                          [file |-> it.filename, n |-> 0, id |-> "intro",
                           title |-> it.title, html |-> r.html_lines,
                           play_order |-> play_order])
              ELSE pages' = Append(pages,
                          [file |-> "chapter_", n |-> chapter_index + 1,
                           id |-> "chap_",
                           title |-> it.num_str \o <<" ">> \o it.title,
                           html |-> r.html_lines,
                           play_order |-> play_order])
    /\ play_order' = play_order + 1
    /\ item' = item + 1
    /\ UNCHANGED <<pc, content, nlines, toc_text, body_text, diag, chapters,
                   parsed_body, text>>

\* one iteration of "for item in parsed_body"
MainItem ==
    /\ pc = "main"
    /\ item < Len(parsed_body)
    /\ LET it == parsed_body[item + 1]
           r == process_text(it.content)
       IN  /\ escaped' = r.escaped
           /\ wrapped' = r.wrapped
           /\ html_lines' = r.html_lines
           /\ IF it.type = "intro"
              THEN /\ chapter_index' = chapter_index
                   /\ pages' = Append(pages,
                          [file |-> it.filename, n |-> 0, id |-> "intro",
                           title |-> it.title, html |-> r.html_lines,
                           play_order |-> play_order])
              ELSE /\ chapter_index' = chapter_index + 1
                   /\ pages' = Append(pages,
                          [file |-> "chapter_", n |-> chapter_index + 1,
                           id |-> "chap_",
                           title |-> it.num_str \o <<" ">> \o it.title,
                           html |-> r.html_lines,
                           play_order |-> play_order])
    /\ play_order' = play_order + 1
    /\ item' = item + 1
    /\ UNCHANGED <<pc, content, nlines, toc_text, body_text, diag, chapters,
                   parsed_body, text>>

\* the end of the loop: TOC page, manifest, navigation and archive
Finish ==
    /\ pc = "main"
    /\ item = Len(parsed_body)
    /\ pc' = "done"
    /\ UNCHANGED <<content, nlines, toc_text, body_text, diag, chapters,
                   parsed_body, item, chapter_index, play_order, pages,
                   text, escaped, wrapped, html_lines>>

Next ==
    \/ \E l \in FullTxtLines : WriteLine(l)
    \/ FileMissing
    \/ ParseFullText
    \/ MainItem
    \/ Finish

Spec == Init /\ [][Next]_vars

---------------------------------------------------------------------------
(* The run of main on a full.txt whose chapter headers stand alone on their
   line, the title missing *)

\* 第 二 回, nothing after 回
line_token_spaced == <<"di", " ", "er", " ", "hui">>

HeaderLines ==
    {line_marker_intro, line_token_only, line_token_spaced,
     line_header_spaces, line_body, line_empty}

NextHeaders ==
    \/ \E l \in HeaderLines : WriteLine(l)
    \/ FileMissing
    \/ ParseFullText
    \/ MainItem
    \/ Finish

SpecHeaders == Init /\ [][NextHeaders]_vars

---------------------------------------------------------------------------
(* process_text called on a chapter text of its own *)

InitText ==
    /\ pc = "text"
    /\ content = <<>>
    /\ nlines = 0
    /\ toc_text = <<>>
    /\ body_text = <<>>
    /\ diag = <<>>
    /\ chapters = <<>>
    /\ parsed_body = <<>>
    /\ item = 0
    /\ chapter_index = 0
    /\ play_order = 2
    /\ pages = <<>>
    /\ text = <<>>
    /\ escaped = <<>>
    /\ wrapped = <<>>
    /\ html_lines = <<>>

\* the chapter text gets one more line
TextLine(l) ==
    /\ pc = "text"
    /\ nlines < MaxTextLines
    /\ text' = IF nlines = 0 THEN l ELSE text \o <<"\n">> \o l
    /\ nlines' = nlines + 1
    /\ UNCHANGED <<pc, content, toc_text, body_text, diag, chapters,
                   parsed_body, item, chapter_index, play_order, pages,
                   escaped, wrapped, html_lines>>

\* html_content = process_text(text)
ProcessText ==
    /\ pc = "text"
    /\ LET r == process_text(text)
       IN  /\ escaped' = r.escaped
           /\ wrapped' = r.wrapped
           /\ html_lines' = r.html_lines
    /\ pc' = "classified"
    /\ UNCHANGED <<content, nlines, toc_text, body_text, diag, chapters,
                   parsed_body, item, chapter_index, play_order, pages, text>>

NextText ==
    \/ \E l \in TextLines : TextLine(l)
    \/ ProcessText

SpecText == InitText /\ [][NextText]_vars

---------------------------------------------------------------------------
(* Vocabulary of the properties *)

\* parse_full_text has just returned from reading an existing full.txt (its
\* results are not changed afterwards)
Parsed == pc = "main" /\ item = 0 /\ diag # <<"Error: full.txt not found.">>

\* the offsets at which the front-matter marker occurs in s
MarkerOffsets(s) ==
    {i \in 0..(Len(s) - Len(split_marker)) :
        Slice(s, i, i + Len(split_marker)) = split_marker}

\* index q (1-based) is the first character of a line of s
IsLineStart(s, q) == q = 1 \/ (q > 1 /\ q <= Len(s) /\ s[q - 1] = "\n")

\* a chapter-opening line starts at index q: 第, numerals, 回, whitespace
OpensChapter(s, q) ==
    /\ q \in 1..Len(s)
    /\ IsLineStart(s, q)
    /\ NumeralToken(s, q) > 0
    /\ NumeralToken(s, q) < Len(s)
    /\ s[NumeralToken(s, q) + 1] \in Whitespace

ChapterOpenings(s) == {q \in 1..Len(s) : OpensChapter(s, q)}

\* a line starts at index q with 第, 一, 回 (whitespace allowed between)
OpensFirstChapter(s, q) ==
    q \in 1..Len(s) /\ IsLineStart(s, q) /\ FirstChapterToken(s, q) > 0

FirstChapterOpenings(s) == {q \in 1..Len(s) : OpensFirstChapter(s, q)}

Least(S) == CHOOSE x \in S : \A y \in S : x <= y

\* the offset at which a line starting at index q is cut off the preamble:
\* that of the line break before it, 0 for the first line
CutBefore(q) == IF q = 1 THEN 0 ELSE q - 2

IsChapter(r) == r.type = "chapter"
IsIntro(r) == r.type = "intro"
ChapterRecords == SelectSeq(parsed_body, IsChapter)
IntroRecords == SelectSeq(parsed_body, IsIntro)

---------------------------------------------------------------------------
(* C1: end-to-end scenario A *)

ScenarioA == line_marker_intro \o <<"\n">> \o line_scenario_header

\* C1 as stated: scenario A gives a front-matter record with body 前言文字
\* and one chapter record 第一回 / 开篇之题 / 这是正文。 whose body classifies
\* as a single poem-line.
C1_ScenarioA_AsStated ==
    (pc = "done" /\ content = ScenarioA) =>
        /\ Len(IntroRecords) = 1
        /\ IntroRecords[1].content = <<"qian", "yan", "wen", "zi">>
        /\ Len(ChapterRecords) = 1
        /\ ChapterRecords[1].num_str = <<"di", "yi", "hui">>
        /\ ChapterRecords[1].title = <<"kai", "pian", "zhi", "ti">>
        /\ ChapterRecords[1].content = line_body
        /\ pages[Len(pages)].html = <<[class |-> "poem-line", line |-> line_body]>>

\* C1 amended: in scenario A the front-matter body keeps the marker
\* (扉页题诗：前言文字), the single chapter record has numeral-token 第一回,
\* the whole rest of the header line as title and an empty body, and the
\* classifier emits no line for it.
C1_ScenarioA ==
    (pc = "done" /\ content = ScenarioA) =>
        /\ Len(parsed_body) = 2
        /\ Len(IntroRecords) = 1
        /\ IntroRecords[1].content = line_marker_intro
        /\ Len(ChapterRecords) = 1
        /\ ChapterRecords[1].num_str = <<"di", "yi", "hui">>
        /\ ChapterRecords[1].title =
               <<"kai", "pian", "zhi", "ti", "IDSP", "IDSP">> \o line_body
        /\ ChapterRecords[1].content = <<>>
        /\ pages[Len(pages)].html = <<>>

C1_Witness == pc = "done" /\ content = ScenarioA /\ Len(pages) = 2

---------------------------------------------------------------------------
(* C2: the numeral-token carries no whitespace *)

\* C2: the numeral-token of every chapter record whose header line matches
\* the numeral+title pattern contains no whitespace character.
C2_NumeralTokenNoWhitespace ==
    Parsed =>
        \A i \in 1..Len(ChapterRecords) :
            header_match(ChapterRecords[i].original_header).ok =>
                \A k \in 1..Len(ChapterRecords[i].num_str) :
                    ChapterRecords[i].num_str[k] \notin Whitespace

---------------------------------------------------------------------------
(* C3: the split at the marker *)

\* C3: with exactly one marker the body region is the input from the
\* marker's offset on, and the records are those of that region alone:
\* nothing before the marker yields or feeds a record.
C3_SplitAtMarker ==
    (Parsed /\ Cardinality(MarkerOffsets(content)) = 1) =>
        LET k == Least(MarkerOffsets(content))
            region == Slice(content, k, Len(content))
        IN  /\ body_text = region
            /\ toc_text = Slice(content, 0, k)
            /\ parsed_body = parse_full_text(region).parsed_body
            /\ Len(ChapterRecords) <= Cardinality(ChapterOpenings(region))

C3_Witness ==
    /\ pc = "done"
    /\ Cardinality(MarkerOffsets(content)) = 1
    /\ ChapterOpenings(toc_text) # {}
    /\ Len(ChapterRecords) = 1
    /\ Len(IntroRecords) = 1

---------------------------------------------------------------------------
(* C4: chapter ordinals *)

IsChapterPage(pg) == pg.id = "chap_"
ChapterPages == SelectSeq(pages, IsChapterPage)

\* C4: the pages of the chapter records are numbered 1, 2, ... in document
\* order, up to the number of detected boundaries once the loop is over; a
\* front-matter page takes no ordinal.
C4_Ordinals ==
    (pc \in {"main", "done"}) =>
        /\ \A i \in 1..Len(ChapterPages) :
              /\ ChapterPages[i].n = i
              /\ ChapterPages[i].title =
                     ChapterRecords[i].num_str \o <<" ">> \o ChapterRecords[i].title
        /\ chapter_index = Len(ChapterPages)
        /\ \A i \in 1..Len(pages) : ~IsChapterPage(pages[i]) => pages[i].n = 0
        /\ (pc = "done" /\ diag # <<"Error: full.txt not found.">>) =>
              /\ Len(ChapterPages) = Len(finditer(body_text, 0))
              /\ Len(ChapterPages) = Len(ChapterRecords)

C4_Witness ==
    /\ pc = "done"
    /\ Len(IntroRecords) = 1
    /\ Len(ChapterPages) >= 2
    /\ pages[1].id = "intro"

---------------------------------------------------------------------------
(* C5, C6: nothing to partition *)

NoSplitDiag ==
    <<"Warning: marker not found", "Error: Could not split TOC and Body.">>

\* C5 as stated: without the marker and without any chapter-opening line
\* the result is empty: no chapter, no front-matter record, a diagnostic.
C5_NothingFound_AsStated ==
    (Parsed /\ MarkerOffsets(content) = {} /\ ChapterOpenings(content) = {}) =>
        /\ parsed_body = <<>>
        /\ chapters = <<>>
        /\ diag # <<>>

\* C5 amended: without the marker and without any line start matching
\* 第\s*一\s*回 (the pattern the fallback searches, which needs no whitespace
\* after 回) the result is empty: no chapter, no front-matter record, and
\* the two diagnostics are printed.
C5_NothingFound ==
    (Parsed /\ MarkerOffsets(content) = {} /\ FirstChapterOpenings(content) = {}) =>
        /\ parsed_body = <<>>
        /\ chapters = <<>>
        /\ diag = NoSplitDiag

C5_Witness ==
    /\ pc = "done"
    /\ diag = NoSplitDiag
    /\ MarkerOffsets(content) = {}
    /\ FirstChapterOpenings(content) = {}
    /\ ChapterOpenings(content) # {}
    /\ parsed_body = <<>>

\* C6 as stated: when no chapter-opening pattern matches anywhere in the
\* input, the result is no chapter and exactly one front-matter record
\* whose body is the entire input, with a diagnostic.
C6_NoChapters_AsStated ==
    (Parsed /\ ChapterOpenings(content) = {}) =>
        /\ Len(parsed_body) = 1
        /\ parsed_body[1].type = "intro"
        /\ parsed_body[1].content = content
        /\ diag # <<>>

\* the offset at which the body region starts: the marker, or else the
\* first line start matching 第\s*一\s*回; -1 when there is neither
RegionStart(s) ==
    IF MarkerOffsets(s) # {} THEN Least(MarkerOffsets(s))
    ELSE IF FirstChapterOpenings(s) # {}
         THEN CutBefore(Least(FirstChapterOpenings(s)))
    ELSE -1

\* C6 amended: when a body region is found (from the marker, or else from
\* the first line start matching 第\s*一\s*回) and no chapter-opening pattern
\* matches inside it, the result is no chapter and exactly one front-matter
\* record whose body is that region, untrimmed (not the entire input), and
\* the no-chapter diagnostic is printed last.
C6_NoChapters ==
    (Parsed /\ RegionStart(content) # -1
       /\ ChapterOpenings(Slice(content, RegionStart(content), Len(content))) = {}) =>
        /\ Len(parsed_body) = 1
        /\ parsed_body[1].type = "intro"
        /\ parsed_body[1].title = <<"quan", "wen">>
        /\ parsed_body[1].content = Slice(content, RegionStart(content), Len(content))
        /\ diag # <<>>
        /\ diag[Len(diag)] = "Warning: No chapter headers found in body."

C6_Witness ==
    /\ pc = "done"
    /\ RegionStart(content) > 0
    /\ ChapterOpenings(content) # {}
    /\ Len(parsed_body) = 1
    /\ parsed_body[1].type = "intro"
    /\ parsed_body[1].content # Strip(parsed_body[1].content)

---------------------------------------------------------------------------
(* C9, C10: chapter boundaries *)

\* C9: every line start of the body region that matches the chapter-opening
\* pattern is a boundary: there are as many chapter records as such lines.
C9_EveryOpeningIsBoundary ==
    Parsed => Len(ChapterRecords) = Cardinality(ChapterOpenings(body_text))

\* C10 as stated: without the marker the split is at the first line start
\* matching the chapter-opening pattern with any numerals followed by
\* whitespace; a diagnostic is printed and chapters are returned.
C10_Fallback_AsStated ==
    (Parsed /\ MarkerOffsets(content) = {} /\ ChapterOpenings(content) # {}) =>
        LET q == Least(ChapterOpenings(content))
        IN  /\ body_text \in {Slice(content, CutBefore(q), Len(content)),
                              Slice(content, q - 1, Len(content))}
            /\ diag # <<>>
            /\ ChapterRecords # <<>>

\* C10 amended: without the marker the split is at the first line start
\* matching 第\s*一\s*回 (chapter one only, no whitespace needed after 回),
\* cut at the line break before that line; everything before is preamble, a
\* diagnostic is printed first, and the records of the text from there on
\* are returned.
C10_Fallback ==
    (Parsed /\ MarkerOffsets(content) = {} /\ FirstChapterOpenings(content) # {}) =>
        LET q == Least(FirstChapterOpenings(content))
        IN  /\ toc_text = Slice(content, 0, CutBefore(q))
            /\ body_text = Slice(content, CutBefore(q), Len(content))
            /\ diag # <<>>
            /\ diag[1] = "Warning: marker not found"
            /\ parsed_body # <<>>
            /\ Len(ChapterRecords) <= Cardinality(ChapterOpenings(body_text))
            /\ \A i \in 1..Len(ChapterRecords) :
                   ChapterRecords[i].original_header \in
                       {Strip(l) : l \in {SplitLines(body_text)[j] :
                                             j \in 1..Len(SplitLines(body_text))}}

C10_Witness ==
    /\ pc = "done"
    /\ MarkerOffsets(content) = {}
    /\ FirstChapterOpenings(content) # {}
    /\ ChapterOpenings(content) # {}
    /\ Least(ChapterOpenings(content)) < Least(FirstChapterOpenings(content))
    /\ Len(ChapterRecords) >= 1

---------------------------------------------------------------------------
(* C7: one output line per non-blank input line *)

IsNonBlank(l) == \E k \in 1..Len(l) : l[k] \notin Whitespace
NonBlankLines(t) == SelectSeq(SplitLines(t), IsNonBlank)

\* C7: the classifier emits one line for each input line that is not empty
\* or whitespace-only, in the same order (the line escaped, wrapped and
\* trimmed), none for the others, and so never more lines than it was given.
C7_OneLinePerNonBlankLine ==
    (pc = "classified") =>
        /\ Len(html_lines) = Len(NonBlankLines(text))
        /\ \A i \in 1..Len(html_lines) :
               html_lines[i].line =
                   Strip(wrap_comments(escape_html(NonBlankLines(text)[i])))
        /\ Len(html_lines) <= Len(SplitLines(text))

C7_Witness ==
    /\ pc = "classified"
    /\ Len(SplitLines(text)) = 3
    /\ ~IsNonBlank(SplitLines(text)[2])
    /\ Len(SplitLines(text)[2]) > 0
    /\ Len(html_lines) = 2
    /\ html_lines[1] # html_lines[2]

---------------------------------------------------------------------------
(* C8: comment markers around annotation spans *)

OpensAt(w, i) ==
    /\ i + Len(span_open) - 1 <= Len(w)
    /\ SubSeq(w, i, i + Len(span_open) - 1) = span_open
ClosesAt(w, i) ==
    /\ i + Len(span_close) - 1 <= Len(w)
    /\ SubSeq(w, i, i + Len(span_close) - 1) = span_close

\* the text w without the comment markers
RECURSIVE Unwrap(_)
Unwrap(w) ==
    LET tags == {i \in 1..Len(w) : OpensAt(w, i) \/ ClosesAt(w, i)}
        i == CHOOSE i \in tags : \A k \in tags : i <= k
        n == IF OpensAt(w, i) THEN Len(span_open) ELSE Len(span_close)
    IN  IF tags = {} THEN w
        ELSE SubSeq(w, 1, i - 1) \o Unwrap(SubSeq(w, i + n, Len(w)))

\* index i of w lies inside a comment marker: the nearest marker tag to its
\* left is an opening one
InMarker(w, i) ==
    \E a \in 1..i :
        /\ OpensAt(w, a)
        /\ \A b \in (a + 1)..i : ~ClosesAt(w, b)

\* a comment marker opening at index a holds one annotation span: 【 first,
\* then no 】 and no line break up to the 】 right before the closing tag
HoldsOneSpan(w, a) ==
    \E z \in (a + Len(span_open) + 1)..Len(w) :
        /\ w[a + Len(span_open)] = "lb"
        /\ w[z] = "rb"
        /\ ClosesAt(w, z + 1)
        /\ \A k \in (a + Len(span_open))..(z - 1) : w[k] \notin {"rb", "\n", "<"}

\* C8 as stated: no 【 that has a 】 anywhere after it, on its line or on a
\* later one, is left outside a comment marker; every marker holds one span
\* with both glyphs; deleting the markers gives back the escaped text.
C8_SpansWrapped_AsStated ==
    (pc = "classified") =>
        /\ Unwrap(wrapped) = escaped
        /\ \A a \in 1..Len(wrapped) : OpensAt(wrapped, a) => HoldsOneSpan(wrapped, a)
        /\ \A i \in 1..Len(wrapped) :
               (wrapped[i] = "lb" /\ ~InMarker(wrapped, i)) =>
                   \A j \in (i + 1)..Len(wrapped) : wrapped[j] # "rb"

\* C8 amended: every annotation span running from a 【 to the nearest
\* following 】 on the same line is wrapped in a comment marker that contains
\* both glyphs (a 【 with a line break before the next 】 stays unwrapped),
\* and deleting the markers from the wrapped text gives back the escaped
\* text.
C8_SpansWrapped ==
    (pc = "classified") =>
        /\ Unwrap(wrapped) = escaped
        /\ \A a \in 1..Len(wrapped) : OpensAt(wrapped, a) => HoldsOneSpan(wrapped, a)
        /\ \A i \in 1..Len(wrapped) :
               (wrapped[i] = "lb" /\ ~InMarker(wrapped, i)) =>
                   \A j \in (i + 1)..Len(wrapped) :
                       wrapped[j] = "rb" =>
                           \E k \in (i + 1)..(j - 1) : wrapped[k] = "\n"

C8_Witness ==
    /\ pc = "classified"
    /\ text = text_nested \o <<"\n">> \o text_open \o <<"\n">> \o text_close
    /\ wrapped # escaped

---------------------------------------------------------------------------
(* C11: one kind per line, by the first matching rule *)

\* the line announces a poem: it starts with 诗曰 or ends with 云：, 道是：
\* or 曰：
AnnouncesPoem(l) ==
    \/ (Len(l) >= 2 /\ l[1] = "shi" /\ l[2] = "yue")
    \/ (Len(l) >= 2 /\ l[Len(l)] = "colon" /\ l[Len(l) - 1] \in {"yun", "yue"})
    \/ (Len(l) >= 3 /\ l[Len(l)] = "colon" /\ l[Len(l) - 1] = "shi4"
          /\ l[Len(l) - 2] = "dao")

\* the line is short and ends in 。 ， ？ or ！
ShortVerse(l) ==
    /\ Len(l) >= 1
    /\ Len(l) < ShortLine
    /\ l[Len(l)] \in {"period", "comma", "qmark", "bang"}

\* C11: every emitted line has one kind, that of the first rule it matches
\* in the order poem-intro, poem-line, paragraph: a line matching both the
\* poem-intro and the poem-line rule is a poem-intro, a line matching
\* neither is a paragraph.
C11_FirstMatchingRule ==
    (pc = "classified") =>
        \A i \in 1..Len(html_lines) :
            LET l == html_lines[i].line
                k == html_lines[i].class
            IN  /\ k \in {"poem-intro", "poem-line", ""}
                /\ AnnouncesPoem(l) => k = "poem-intro"
                /\ (~AnnouncesPoem(l) /\ ShortVerse(l)) => k = "poem-line"
                /\ (~AnnouncesPoem(l) /\ ~ShortVerse(l)) => k = ""

C11_Witness ==
    /\ pc = "classified"
    /\ Len(html_lines) = 3
    /\ AnnouncesPoem(html_lines[1].line) /\ ShortVerse(html_lines[1].line)
    /\ html_lines[1].class = "poem-intro"
    /\ html_lines[2].class = "poem-line"
    /\ html_lines[3].class = ""

---------------------------------------------------------------------------
(* C12: the fallback for a malformed header line *)

\* the line has the header shape: numeral-token, whitespace, title
HeaderShape(h) ==
    /\ NumeralToken(h, 1) > 0
    /\ NumeralToken(h, 1) < Len(h)
    /\ h[NumeralToken(h, 1) + 1] \in Whitespace

\* C12: a chunk whose first line lacks the header shape still gives a
\* chapter record (one per boundary); its numeral-token is the first 4
\* characters of that line, the whole line if shorter, and its title is the
\* whole line.
C12_MalformedHeader ==
    Parsed =>
        /\ Len(ChapterRecords) = Len(finditer(body_text, 0))
        /\ \A i \in 1..Len(ChapterRecords) :
               LET h == ChapterRecords[i].original_header
               IN  ~HeaderShape(h) =>
                       /\ ChapterRecords[i].num_str =
                              [k \in 1..(IF Len(h) < 4 THEN Len(h) ELSE 4) |-> h[k]]
                       /\ ChapterRecords[i].title = h

C12_Witness ==
    /\ pc = "done"
    /\ \E i \in 1..Len(ChapterRecords) :
           /\ ~HeaderShape(ChapterRecords[i].original_header)
           /\ Len(ChapterRecords[i].original_header) > 4
           /\ Len(ChapterRecords[i].num_str) = 4
           /\ ChapterRecords[i].content # <<>>

---------------------------------------------------------------------------
(* C13: partitioning keeps every non-whitespace character *)

IsInk(c) == c \notin Whitespace
Ink(s) == SelectSeq(s, IsInk)

\* the texts of the records from index i on, one after the other: the body
\* of a front-matter record, the header line and the body of a chapter
RECURSIVE RecordTexts(_, _)
RecordTexts(records, i) ==
    IF i > Len(records) THEN <<>>
    ELSE (IF records[i].type = "intro" THEN records[i].content
          ELSE records[i].original_header \o records[i].content)
         \o RecordTexts(records, i + 1)

\* C13: when at least one boundary is detected, the front-matter body
\* followed by each chapter's header line and body holds exactly the
\* non-whitespace characters of the body region, in the same order.
C13_NoCharacterLost ==
    (Parsed /\ ChapterRecords # <<>>) =>
        Ink(RecordTexts(parsed_body, 1)) = Ink(body_text)

C13_Witness ==
    /\ pc = "done"
    /\ Len(IntroRecords) = 1
    /\ Len(ChapterRecords) = 2
    /\ ChapterRecords[1].content # <<>>
    /\ Cardinality(ChapterOpenings(body_text)) > 2
    /\ Len(Ink(body_text)) < Len(body_text)

---------------------------------------------------------------------------
(* C14: the short-line test counts the inserted markup *)

\* the number of comment markers in the line
Markers(l) == Cardinality({i \in 1..Len(l) : OpensAt(l, i)})

\* C14: the poem-line rule measures the emitted line, i.e. the escaped raw
\* line plus 29 characters for each comment marker: a line with one
\* annotation span is a poem-line only if its raw text has at most 10
\* characters (and is one whenever it has, ends in 。，？！ and announces no
\* poem), and 贾雨村【批注】风尘怀闺秀。 (13 characters) is a paragraph.
C14_MarkupCounts ==
    (pc = "classified") =>
        \A i \in 1..Len(html_lines) :
            LET raw == Strip(NonBlankLines(text)[i])
                l == html_lines[i].line
                k == html_lines[i].class
            IN  /\ Len(l) = Len(escape_html(raw)) + 29 * Markers(l)
                /\ (Markers(l) = 1 /\ k = "poem-line") => Len(raw) <= 10
                /\ (/\ Markers(l) = 1
                    /\ Len(escape_html(raw)) <= 10
                    /\ raw[Len(raw)] \in {"period", "comma", "qmark", "bang"}
                    /\ ~AnnouncesPoem(l)) => k = "poem-line"
                /\ raw = text_annotated => k = ""

C14_Witness ==
    /\ pc = "classified"
    /\ text = text_annotated_10 \o <<"\n">> \o text_annotated_11
                  \o <<"\n">> \o text_annotated
    /\ html_lines[1].class = "poem-line"
    /\ Len(html_lines[1].line) = ShortLine - 1
    /\ html_lines[2].class = ""
    /\ html_lines[3].class = ""

=============================================================================
